---- MODULE Spec2Model ----
(***************************************************************************)
(* Model of the order-matching engine of src/artifacts/marketplace.py:     *)
(* class OrderBook (one book per good) and class Marketplace (the registry *)
(* of books and the driver-facing calls execute / step / reset).           *)
(*                                                                         *)
(* The Agent class (get_amounts, trade) is imported from src.core and is   *)
(* not part of the sources at hand; its two methods are modelled from the  *)
(* ledger interface of the specification (balance query, bilateral         *)
(* transfer).                                                              *)
(***************************************************************************)
EXTENDS Integers, Sequences, FiniteSets, TLC

(* ------------------------------ bounds -------------------------------- *)
\* driver calls (Marketplace.reset / execute / step) in one run
MaxCalls == 4

Agents == {"a1", "a2", "a3"}
Goods == {"food"}
Prices == {1, 2}
Quantities == {-2, -1, 0, 1, 2}
\* the <<price, quantity>> of the actions that are not plain tuples
OtherContents == {<<1, 1>>, <<2, -1>>}
\* the balances the agents start with: a3 is short of capital and of goods
StartInventory ==
    [a \in Agents |-> [x \in {"capital"} \cup Goods |-> IF a = "a3" THEN 1 ELSE 2]]

(* --------------------------- program constants ------------------------ *)
\* np.inf of the two sentinel orders; larger than every price of the model
Infinity == 99
\* Order.id before admission (None)
NoId == -1
\* the fresh Agent() owning a sentinel order
NoAgent == "nobody"

VARIABLES
    markets,      \* Marketplace.markets: good -> OrderBook
    inventory,    \* agent -> (asset -> amount): the agents' balances
    last,         \* what the last driver call did (call record)
    transfers,    \* good -> number of Agent.trade calls issued by that book since its reset
    calls         \* number of driver calls made so far

vars == <<markets, inventory, last, transfers, calls>>

(* ------------------------------ helpers ------------------------------- *)
abs(n) == IF n < 0 THEN 0 - n ELSE n

min(a, b) == IF a <= b THEN a ELSE b

Range(s) == {s[i] : i \in 1..Len(s)}

\* dataclass Order(good, price, quantity, agent, id)
Order(good, price, quantity, agent, id) ==
    [good |-> good, price |-> price, quantity |-> quantity, agent |-> agent, id |-> id]

\* Order(self.product_name, -np.inf, 1, Agent())
BidSentinel(good) == Order(good, 0 - Infinity, 1, NoAgent, NoId)

\* Order(self.product_name, np.inf, -1, Agent())
OfferSentinel(good) == Order(good, Infinity, -1, NoAgent, NoId)

\* "no order" in a call record
NullOrder == Order("", 0, 0, NoAgent, NoId)

\* "no transfer" in a call record
NullTransfer ==
    [caller |-> NoAgent, out_asset |-> "", out_amount |-> 0,
     in_asset |-> "", in_amount |-> 0, counterparty |-> NoAgent]

\* OrderBook.__init__
NewOrderBook(good) ==
    [product_name |-> good,
     sell_orders |-> <<>>,
     buy_orders |-> <<>>,
     highest_bid_order |-> BidSentinel(good),
     lowest_offer_order |-> OfferSentinel(good),
     order_count |-> 0,
     num_transactions |-> 0,
     history |-> <<>>,
     best_bid_history |-> <<>>,
     best_ask_history |-> <<>>,
     event_history |-> <<>>]

\* book_reset that leaves the cached best orders as they are
book_reset_keeps_best(b) ==
    [b EXCEPT !.sell_orders = <<>>,
              !.buy_orders = <<>>,
              !.order_count = 0,
              !.num_transactions = 0,
              !.history = <<>>]

\* OrderBook.reset: the snapshot series and the event log are not touched
book_reset(b) ==
    [b EXCEPT !.sell_orders = <<>>,
              !.buy_orders = <<>>,
              !.highest_bid_order = BidSentinel(b.product_name),
              !.lowest_offer_order = OfferSentinel(b.product_name),
              !.order_count = 0,
              !.num_transactions = 0,
              !.history = <<>>]

\* book_step that sets the cached best bid to the head of the buy side first
book_step_refreshes(b) ==
    LET b1 == IF Len(b.buy_orders) # 0
              THEN [b EXCEPT !.highest_bid_order = b.buy_orders[1]]
              ELSE [b EXCEPT !.highest_bid_order = BidSentinel(b.product_name)]
    IN  [b1 EXCEPT !.best_bid_history = Append(@, b1.highest_bid_order.price),
                   !.best_ask_history = Append(@, b1.lowest_offer_order.price)]

\* OrderBook.step
book_step(b) ==
    [b EXCEPT !.best_bid_history = Append(@, b.highest_bid_order.price),
              !.best_ask_history = Append(@, b.lowest_offer_order.price)]

(* ------------------------- ledger interface --------------------------- *)
\* Agent.get_amounts(asset): the agent's balance of the asset, 0 for an asset
\* the agent's inventory has no entry for
get_amounts(inv, agent, asset) ==
    IF asset \in DOMAIN inv[agent] THEN inv[agent][asset] ELSE 0

\* the inventory with the agent's balance of the asset changed by delta (an
\* asset received for the first time gets its entry)
credit(inv, agent, asset, delta) ==
    [inv EXCEPT ![agent] =
        [x \in DOMAIN inv[agent] \cup {asset} |->
            IF x = asset THEN get_amounts(inv, agent, asset) + delta ELSE inv[agent][x]]]

\* Agent.trade(leg_out, leg_in, counterparty): the caller gives leg_out and
\* receives leg_in, the counterparty the reverse; a leg is <<asset, amount>>
trade(inv, caller, leg_out, leg_in, counterparty) ==
    LET inv1 == credit(inv, caller, leg_out[1], 0 - leg_out[2])
        inv2 == credit(inv1, caller, leg_in[1], leg_in[2])
        inv3 == credit(inv2, counterparty, leg_out[1], leg_out[2])
    IN  credit(inv3, counterparty, leg_in[1], 0 - leg_in[2])

\* the arguments of one Agent.trade call
Transfer(caller, leg_out, leg_in, counterparty) ==
    [caller |-> caller, out_asset |-> leg_out[1], out_amount |-> leg_out[2],
     in_asset |-> leg_in[1], in_amount |-> leg_in[2], counterparty |-> counterparty]

(* --------------------------- python lists ----------------------------- *)
\* x in list
list_contains(s, x) == \E i \in 1..Len(s) : s[i] = x

\* list.remove(x): drops the first element equal to x (dataclass equality
\* compares every field); the caller handles the ValueError of an absent x
list_remove(s, x) ==
    LET k == CHOOSE i \in 1..Len(s) : s[i] = x /\ \A j \in 1..(i - 1) : s[j] # x
    IN  SubSeq(s, 1, k - 1) \o SubSeq(s, k + 1, Len(s))

\* sorted_insert with a sort that is not stable: x goes ahead of its equals
sorted_insert_unstable(t, x, reverse) ==
    LET k == Cardinality({i \in 1..Len(t) :
                 IF reverse THEN t[i].price > x.price ELSE t[i].price < x.price})
    IN  SubSeq(t, 1, k) \o <<x>> \o SubSeq(t, k + 1, Len(t))

\* one step of sorted(): x goes behind every element that does not sort after it
sorted_insert(t, x, reverse) ==
    LET k == Cardinality({i \in 1..Len(t) :
                 IF reverse THEN t[i].price >= x.price ELSE t[i].price <= x.price})
    IN  SubSeq(t, 1, k) \o <<x>> \o SubSeq(t, k + 1, Len(t))

\* sorted(s, key=lambda x: x.price, reverse=reverse): stable in both directions
RECURSIVE sorted(_, _)
sorted(s, reverse) ==
    IF s = <<>> THEN <<>>
    ELSE sorted_insert(sorted(SubSeq(s, 1, Len(s) - 1), reverse), s[Len(s)], reverse)

\* for existing_order in orders: if existing_order.agent == agent: orders.remove(existing_order)
\* the list iterator is an index that advances by one whatever was removed
RECURSIVE remove_loop(_, _, _)
remove_loop(orders, agent, i) ==
    IF i > Len(orders) THEN orders
    ELSE IF orders[i].agent = agent
         THEN remove_loop(list_remove(orders, orders[i]), agent, i + 1)
         ELSE remove_loop(orders, agent, i + 1)

(* ----------------------------- OrderBook ------------------------------ *)
\* is_order_legitimate without the test of a zero quantity
is_order_legitimate_zero_ok(b, inv, order, is_buy_order) ==
    IF is_buy_order /\ get_amounts(inv, order.agent, "capital") >= order.price THEN TRUE
    ELSE IF ~is_buy_order /\ get_amounts(inv, order.agent, b.product_name) >= abs(order.quantity)
         THEN TRUE
    ELSE FALSE

\* is_order_legitimate with the buy side checked against price x quantity
is_order_legitimate_total_cost(b, inv, order, is_buy_order) ==
    IF order.quantity = 0 THEN FALSE
    ELSE IF is_buy_order
            /\ get_amounts(inv, order.agent, "capital") >= order.price * order.quantity THEN TRUE
    ELSE IF ~is_buy_order /\ get_amounts(inv, order.agent, b.product_name) >= abs(order.quantity)
         THEN TRUE
    ELSE FALSE

\* OrderBook.is_order_legitimate
is_order_legitimate(b, inv, order, is_buy_order) ==
    IF order.quantity = 0 THEN FALSE
    ELSE IF is_buy_order /\ get_amounts(inv, order.agent, "capital") >= order.price THEN TRUE
    ELSE IF ~is_buy_order /\ get_amounts(inv, order.agent, b.product_name) >= abs(order.quantity)
         THEN TRUE
    ELSE FALSE

\* should_remove_existing_order looking only at the side the new order is for
should_remove_same_side(b, order) ==
    IF order.quantity >= 0
    THEN [b EXCEPT !.buy_orders = remove_loop(@, order.agent, 1)]
    ELSE [b EXCEPT !.sell_orders = remove_loop(@, order.agent, 1)]

\* OrderBook.should_remove_existing_order
should_remove_existing_order(b, order) ==
    [b EXCEPT !.sell_orders = remove_loop(@, order.agent, 1),
              !.buy_orders = remove_loop(@, order.agent, 1)]

\* transaction_price taken from the incoming (taker) order
transaction_price_taker(incoming_order, book_order) == incoming_order.price

\* transaction_price = book_order.price
transaction_price(incoming_order, book_order) == book_order.price

\* transaction_quantity = min(abs(incoming_order.quantity), abs(book_order.quantity))
transaction_quantity(incoming_order, book_order) ==
    min(abs(incoming_order.quantity), abs(book_order.quantity))

\* execute_transfer with the incoming agent always on the paying side
execute_transfer_caller_pays(b, incoming_order, book_order) ==
    Transfer(incoming_order.agent,
             <<"capital", transaction_price(incoming_order, book_order)>>,
             <<b.product_name, transaction_quantity(incoming_order, book_order)>>,
             book_order.agent)

\* the Agent.trade call of OrderBook.execute
execute_transfer(b, incoming_order, book_order) ==
    LET price == transaction_price(incoming_order, book_order)
        quantity == transaction_quantity(incoming_order, book_order)
    IN  IF incoming_order.quantity >= 0
        THEN Transfer(incoming_order.agent, <<"capital", price>>,
                      <<b.product_name, quantity>>, book_order.agent)
        ELSE Transfer(incoming_order.agent, <<b.product_name, quantity>>,
                      <<"capital", price>>, book_order.agent)

\* MarketPlaceTransaction(buyer_agent, seller_agent, good, quantity, price, step=0)
trade_event(b, incoming_order, book_order) ==
    LET is_incoming_buy_order == incoming_order.quantity >= 0
    IN  [buyer_agent |-> IF is_incoming_buy_order THEN incoming_order.agent ELSE book_order.agent,
         seller_agent |-> IF is_incoming_buy_order THEN book_order.agent ELSE incoming_order.agent,
         good |-> b.product_name,
         quantity |-> transaction_quantity(incoming_order, book_order),
         price |-> transaction_price(incoming_order, book_order),
         step |-> 0]

\* the row OrderBook.execute appends to self.history
trade_record(b, incoming_order, book_order) ==
    LET is_incoming_buy_order == incoming_order.quantity >= 0
    IN  [transaction_id |-> b.num_transactions,
         price |-> transaction_price(incoming_order, book_order),
         quantity |-> transaction_quantity(incoming_order, book_order),
         buyer |-> IF is_incoming_buy_order THEN incoming_order.agent ELSE book_order.agent,
         seller |-> IF ~is_incoming_buy_order THEN incoming_order.agent ELSE book_order.agent]

\* OrderBook.execute: the transfer, then the removal of book_order from its
\* side (list.remove raises ValueError when book_order is not in the list,
\* and the call ends there, the transfer made), then the event, the trade
\* record and the counter
execute(b, inv, incoming_order, book_order) ==
    LET t == execute_transfer(b, incoming_order, book_order)
        inv1 == trade(inv, t.caller, <<t.out_asset, t.out_amount>>,
                      <<t.in_asset, t.in_amount>>, t.counterparty)
        is_incoming_buy_order == incoming_order.quantity >= 0
        side == IF is_incoming_buy_order THEN b.sell_orders ELSE b.buy_orders
    IN  IF ~list_contains(side, book_order)
        THEN [book |-> b, inventory |-> inv1, returned |-> FALSE, raised |-> TRUE,
              book_order |-> book_order, transfer |-> t]
        ELSE [book |->
                [b EXCEPT !.sell_orders = IF is_incoming_buy_order
                                          THEN list_remove(@, book_order) ELSE @,
                          !.buy_orders = IF is_incoming_buy_order
                                         THEN @ ELSE list_remove(@, book_order),
                          !.event_history = Append(@, trade_event(b, incoming_order, book_order)),
                          !.history = Append(@, trade_record(b, incoming_order, book_order)),
                          !.num_transactions = @ + 1],
              inventory |-> inv1, returned |-> TRUE, raised |-> FALSE,
              book_order |-> book_order, transfer |-> t]

\* the result of a match attempt that made no call to execute
no_execution(b, inv) ==
    [book |-> b, inventory |-> inv, returned |-> FALSE, raised |-> FALSE,
     book_order |-> NullOrder, transfer |-> NullTransfer]

\* can_order_be_executed matching only on a strictly better price
can_order_be_executed_strict(b, inv, order, is_buy_order) ==
    IF (is_buy_order /\ Len(b.sell_orders) = 0) \/ (~is_buy_order /\ Len(b.buy_orders) = 0)
    THEN no_execution(b, inv)
    ELSE IF is_buy_order /\ order.price > b.lowest_offer_order.price
         THEN execute(b, inv, order, b.lowest_offer_order)
    ELSE IF ~is_buy_order /\ order.price < b.highest_bid_order.price
         THEN execute(b, inv, order, b.highest_bid_order)
    ELSE no_execution(b, inv)

\* OrderBook._can_order_be_executed
can_order_be_executed(b, inv, order, is_buy_order) ==
    IF (is_buy_order /\ Len(b.sell_orders) = 0) \/ (~is_buy_order /\ Len(b.buy_orders) = 0)
    THEN no_execution(b, inv)
    ELSE IF is_buy_order /\ order.price >= b.lowest_offer_order.price
         THEN execute(b, inv, order, b.lowest_offer_order)
    ELSE IF ~is_buy_order /\ order.price <= b.highest_bid_order.price
         THEN execute(b, inv, order, b.highest_bid_order)
    ELSE no_execution(b, inv)

\* the tail of OrderBook.add: each non-empty side is sorted and its cached
\* best order set to the head
refresh_best(b) ==
    LET b1 == IF Len(b.buy_orders) # 0
              THEN [b EXCEPT !.buy_orders = sorted(@, TRUE),
                             !.highest_bid_order = sorted(b.buy_orders, TRUE)[1]]
              ELSE b
    IN  IF Len(b1.sell_orders) # 0
        THEN [b1 EXCEPT !.sell_orders = sorted(@, FALSE),
                        !.lowest_offer_order = sorted(b1.sell_orders, FALSE)[1]]
        ELSE b1

\* the insertion of OrderBook.add: the order goes to the end of its side
rest_order(b, order, is_buy_order) ==
    IF is_buy_order
    THEN [b EXCEPT !.buy_orders = Append(@, order)]
    ELSE [b EXCEPT !.sell_orders = Append(@, order)]

\* after_match without the test of order_was_executed: the order always rests
after_match_always_rests(b, order, is_buy_order, order_was_executed) ==
    rest_order(b, order, is_buy_order)

\* if not order_was_executed: the order is appended to its side
after_match(b, order, is_buy_order, order_was_executed) ==
    IF order_was_executed THEN b ELSE rest_order(b, order, is_buy_order)

\* assign_id numbering the orders of a book from 1
assign_id_from_one(b, new_order) == [new_order EXCEPT !.id = b.order_count + 1]

\* OrderBook.add, its first statement: order.id = self.order_count
assign_id(b, new_order) == [new_order EXCEPT !.id = b.order_count]

\* OrderBook.add.  outcome: "dropped" (not legitimate), "executed", "rested",
\* or "raised" (execute ended in ValueError, which ends add as well);
\* superseded: the orders should_remove_existing_order took out of the book
add(b, inv, new_order) ==
    LET order == assign_id(b, new_order)
        b1 == [b EXCEPT !.order_count = @ + 1]
        is_buy_order == order.quantity >= 0
        order_is_legitimate == is_order_legitimate(b1, inv, order, is_buy_order)
        b2 == should_remove_existing_order(b1, order)
        superseded == SelectSeq(b1.sell_orders \o b1.buy_orders,
                                LAMBDA o : ~list_contains(b2.sell_orders \o b2.buy_orders, o))
        r == can_order_be_executed(b2, inv, order, is_buy_order)
    IN  IF ~order_is_legitimate
        THEN [book |-> b2, inventory |-> inv, order |-> order, legitimate |-> FALSE,
              outcome |-> "dropped", superseded |-> superseded,
              book_order |-> NullOrder, transfer |-> NullTransfer]
        ELSE IF r.raised
        THEN [book |-> r.book, inventory |-> r.inventory, order |-> order,
              legitimate |-> TRUE, outcome |-> "raised", superseded |-> superseded,
              book_order |-> r.book_order, transfer |-> r.transfer]
        ELSE [book |-> refresh_best(after_match(r.book, order, is_buy_order, r.returned)),
              inventory |-> r.inventory, order |-> order, legitimate |-> TRUE,
              outcome |-> IF r.returned THEN "executed" ELSE "rested",
              superseded |-> superseded,
              book_order |-> r.book_order, transfer |-> r.transfer]

(* ---------------------------- Marketplace ----------------------------- *)
\* the goods an agent holds: the keys of its inventory other than "capital"
goods_held(inv) ==
    UNION {DOMAIN inv[a] \ {"capital"} : a \in DOMAIN inv}

\* Marketplace.reset: a book is created for every held good that has none,
\* then every book is reset
marketplace_reset(m, inv) ==
    [g \in DOMAIN m \cup goods_held(inv) |->
        book_reset(IF g \in DOMAIN m THEN m[g] ELSE NewOrderBook(g))]

\* Marketplace.step
marketplace_step(m) == [g \in DOMAIN m |-> book_step(m[g])]

\* the goods held by the agents of an environment (environment.agents)
environment_inventory(inv, environment) == [a \in environment |-> inv[a]]

\* the call record of a call other than an accepted order submission
CallRecord(op) ==
    [op |-> op, action |-> "", environment |-> {}, good |-> "", order |-> NullOrder,
     legitimate |-> FALSE, outcome |-> "", superseded |-> <<>>, book_order |-> NullOrder,
     transfer |-> NullTransfer]

\* the shapes of the action handed to Marketplace.execute
AcceptedShapes == {"tuple", "Order"}
RejectedShapes == {"list", "dict"}

\* execute_route taking a list for a tuple
execute_route_list_is_tuple(action) ==
    IF action \in {"tuple", "list"} THEN "add"
    ELSE IF action = "Order" THEN "add"
    ELSE "TypeError"

\* the isinstance chain of Marketplace.execute: a tuple and an Order go to
\* OrderBook.add, a list and anything else raise TypeError
execute_route(action) ==
    IF action = "tuple" THEN "add"
    ELSE IF action = "Order" THEN "add"
    ELSE IF action = "list" THEN "TypeError"
    ELSE "TypeError"

(* ------------------------------ actions ------------------------------- *)
\* the state after Marketplace.__init__: no book yet
Init ==
    /\ markets = <<>>
    /\ inventory = StartInventory
    /\ last = CallRecord("init")
    /\ transfers = [g \in Goods |-> 0]
    /\ calls = 0

\* markets[good].add(Order(good, price, quantity, agent)) and its call record
place_order(agent, action, good, price, quantity) ==
    LET r == add(markets[good], inventory, Order(good, price, quantity, agent, NoId))
    IN  /\ markets' = [markets EXCEPT ![good] = r.book]
        /\ inventory' = r.inventory
        /\ last' = [op |-> "add", action |-> action, environment |-> {}, good |-> good,
                    order |-> r.order,
                    legitimate |-> r.legitimate, outcome |-> r.outcome,
                    superseded |-> r.superseded,
                    book_order |-> r.book_order, transfer |-> r.transfer]
        /\ transfers' = [transfers EXCEPT ![good] =
                            IF r.transfer # NullTransfer THEN @ + 1 ELSE @]

\* Marketplace.execute ending in TypeError
reject_action(agent, action) ==
    /\ last' = [CallRecord("execute") EXCEPT !.action = action, !.outcome = "TypeError"]
    /\ UNCHANGED <<markets, inventory, transfers>>

\* Marketplace.execute(agent, action): action is (good, price, quantity) as a
\* tuple, an Order of the agent, or the same content in another shape
marketplace_execute(agent, action, good, price, quantity) ==
    IF execute_route(action) = "add"
    THEN place_order(agent, action, good, price, quantity)
    ELSE reject_action(agent, action)

\* Marketplace.execute with an action of a recognised shape
Execute(agent, action, good, price, quantity) ==
    /\ calls < MaxCalls
    /\ marketplace_execute(agent, action, good, price, quantity)
    /\ calls' = calls + 1

\* Marketplace.execute with an action of another shape (a list of the same
\* content, a dict)
ExecuteMalformed(agent, action, good, price, quantity) ==
    /\ calls < MaxCalls
    /\ marketplace_execute(agent, action, good, price, quantity)
    /\ calls' = calls + 1

\* Marketplace.step()
Step ==
    /\ calls < MaxCalls
    /\ markets' = marketplace_step(markets)
    /\ last' = CallRecord("step")
    /\ calls' = calls + 1
    /\ UNCHANGED <<inventory, transfers>>

\* Marketplace.reset(environment), environment.agents being the given agents
reset_call(environment) ==
    /\ markets' = marketplace_reset(markets, environment_inventory(inventory, environment))
    /\ last' = [CallRecord("reset") EXCEPT !.environment = environment]
    /\ transfers' = [g \in DOMAIN transfers |-> 0]
    /\ UNCHANGED inventory

\* Marketplace.reset(environment) with every agent in the environment
Reset ==
    /\ calls < MaxCalls
    /\ reset_call(Agents)
    /\ calls' = calls + 1

Next ==
    \/ \E agent \in Agents, good \in DOMAIN markets, price \in Prices, quantity \in Quantities :
           Execute(agent, "tuple", good, price, quantity)
    \/ \E agent \in Agents, good \in DOMAIN markets, content \in OtherContents :
           Execute(agent, "Order", good, content[1], content[2])
    \/ \E agent \in Agents, action \in RejectedShapes, good \in DOMAIN markets,
          content \in OtherContents :
           ExecuteMalformed(agent, action, good, content[1], content[2])
    \/ Step
    \/ Reset

Spec == Init /\ [][Next]_vars

(* ------------- two goods, environments of different agents ------------- *)
\* calls made on the marketplace in a run over two goods
MaxCallsTwoGoods == 5
TwoGoods == {"food", "wood"}
Traders == {"a1", "a2"}
\* environment.agents at a reset: any non-empty list of the traders
Environments == SUBSET Traders \ {{}}
TwoGoodsPrices == {1}
TwoGoodsQuantities == {-1, 1}
\* a1 holds capital and no food (the key is there), a2 holds food and wood
TwoGoodsInventory ==
    [a \in Traders |->
        IF a = "a1" THEN [x \in {"capital", "food"} |-> IF x = "capital" THEN 1 ELSE 0]
        ELSE [x \in {"capital", "food", "wood"} |-> 1]]

\* the state after Marketplace.__init__, the traders holding TwoGoodsInventory
InitTwoGoods ==
    /\ markets = <<>>
    /\ inventory = TwoGoodsInventory
    /\ last = CallRecord("init")
    /\ transfers = [g \in TwoGoods |-> 0]
    /\ calls = 0

\* Marketplace.execute(agent, (good, price, quantity))
ExecuteTwoGoods(agent, good, price, quantity) ==
    /\ calls < MaxCallsTwoGoods
    /\ marketplace_execute(agent, "tuple", good, price, quantity)
    /\ calls' = calls + 1

\* Marketplace.reset(environment)
ResetEnvironment(environment) ==
    /\ calls < MaxCallsTwoGoods
    /\ reset_call(environment)
    /\ calls' = calls + 1

NextTwoGoods ==
    \/ \E agent \in Traders, good \in DOMAIN markets, price \in TwoGoodsPrices,
          quantity \in TwoGoodsQuantities :
           ExecuteTwoGoods(agent, good, price, quantity)
    \/ \E environment \in Environments : ResetEnvironment(environment)

SpecTwoGoods == InitTwoGoods /\ [][NextTwoGoods]_vars

(* =============================== claims =============================== *)
\* the orders resting in book b, both sides
Resting(b) == Range(b.buy_orders) \cup Range(b.sell_orders)

\* s is ordered by price (descending or ascending), and among equal prices
\* the order admitted earlier (the smaller id) comes first
PriceTimeOrdered(s, descending) ==
    \A i, j \in 1..Len(s) :
        i < j =>
            /\ IF descending THEN s[i].price >= s[j].price ELSE s[i].price <= s[j].price
            /\ s[i].price = s[j].price => s[i].id < s[j].id

\* C1: in every reachable state the buy side of every book is ordered by
\* descending price and the sell side by ascending price, and among resting
\* orders of equal price on one side the one inserted earlier comes first.
C1_SidesSorted ==
    \A g \in DOMAIN markets :
        /\ PriceTimeOrdered(markets[g].buy_orders, TRUE)
        /\ PriceTimeOrdered(markets[g].sell_orders, FALSE)

\* C1 witness: three orders rest on one side, the last admitted one was
\* sorted ahead of earlier ones, and two equal prices follow in insertion order
C1_Witness ==
    \E g \in DOMAIN markets :
        \/ LET s == markets[g].buy_orders
           IN  Len(s) = 3 /\ s[1].id > s[2].id /\ s[1].price > s[2].price
                          /\ s[2].price = s[3].price
        \/ LET s == markets[g].sell_orders
           IN  Len(s) = 3 /\ s[1].id > s[2].id /\ s[1].price < s[2].price
                          /\ s[2].price = s[3].price

\* C2: in every reachable state every agent has at most one order resting in
\* a book, both sides taken together, and after an add by an agent the only
\* order of that agent that can rest in the book is the one just submitted.
C2_OneRestingOrderPerAgent ==
    \A g \in DOMAIN markets :
        /\ \A o1, o2 \in Resting(markets[g]) : o1.agent = o2.agent => o1 = o2
        /\ Len(markets[g].buy_orders) + Len(markets[g].sell_orders)
               = Cardinality(Resting(markets[g]))
        /\ (last.op = "add" /\ last.good = g) =>
               \A o \in Resting(markets[g]) : o.agent = last.order.agent => o = last.order

\* C2 witness (scenario C): an agent's order rests after it superseded an
\* order of the same agent that was resting on the other side
C2_Witness ==
    /\ last.op = "add"
    /\ last.outcome = "rested"
    /\ Len(last.superseded) = 1
    /\ (last.superseded[1].quantity >= 0) # (last.order.quantity >= 0)
    /\ last.order \in Resting(markets[last.good])

\* the last call was an add that called execute (the transfer was issued)
Executed == last.op = "add" /\ last.transfer # NullTransfer

\* side s without the orders of the agent
WithoutAgent(s, agent) == SelectSeq(s, LAMBDA o : o.agent # agent)

\* the side opposite to the order, as it is once the submitter's own resting
\* orders are out of book b
OppositeSide(b, order) ==
    WithoutAgent(IF order.quantity >= 0 THEN b.sell_orders ELSE b.buy_orders, order.agent)

\* o is the best order of side s for an incoming order: the lowest-priced sell
\* for a buy, the highest-priced buy for a sell, the earliest among equals
BestOf(o, s, incoming) ==
    /\ o \in Range(s)
    /\ \A x \in Range(s) :
           /\ IF incoming.quantity >= 0 THEN o.price <= x.price ELSE o.price >= x.price
           /\ o.price = x.price => o.id <= x.id

\* C3: whenever add executes, the matched book order is at that moment an
\* order resting on the opposite side of the book and is that side's best
\* order; an order already removed from the book is never the counterparty.
C3_MatchedOrderRestsAndIsBest ==
    [][(last'.op = "add" /\ last'.transfer # NullTransfer) =>
          BestOf(last'.book_order, OppositeSide(markets[last'.good], last'.order), last'.order)]_vars

\* the claim's crossing condition of a legitimate order against side s
Crosses(order, s) ==
    /\ Len(s) # 0
    /\ \E o \in Range(s) :
          /\ BestOf(o, s, order)
          /\ IF order.quantity >= 0 THEN order.price >= o.price ELSE order.price <= o.price

\* C4: a legitimate incoming order executes iff the opposite side, the
\* submitter's prior order removed, is non-empty and the order's price
\* reaches that side's best price; otherwise it is inserted into its own
\* side; exactly one of the two happens.
C4_ExecutesIffCrosses ==
    [][(last'.op = "add" /\ last'.legitimate) =>
          LET crosses == Crosses(last'.order, OppositeSide(markets[last'.good], last'.order))
              executes == last'.transfer # NullTransfer
              rests == last'.order \in Resting(markets'[last'.good])
          IN  /\ executes <=> crosses
              /\ rests <=> ~crosses
              /\ executes # rests]_vars

\* C5: every execution trades min(|incoming quantity|, |matched quantity|) at
\* the matched book order's price, not at the incoming order's price, and
\* the trade record appended to the ledger carries that price and quantity.
C5_MakerPriceMinQuantity ==
    Executed =>
        LET t == last.transfer
            b == markets[last.good]
            price == last.book_order.price
            quantity == min(abs(last.order.quantity), abs(last.book_order.quantity))
        IN  /\ {<<t.out_asset, t.out_amount>>, <<t.in_asset, t.in_amount>>}
                   = {<<"capital", price>>, <<last.good, quantity>>}
            /\ last.outcome = "executed" =>
                   /\ b.history # <<>>
                   /\ b.history[Len(b.history)].price = price
                   /\ b.history[Len(b.history)].quantity = quantity
                   /\ b.event_history[Len(b.event_history)].price = price
                   /\ b.event_history[Len(b.event_history)].quantity = quantity

\* C5 witness (scenarios B, E): an execution whose incoming order has
\* another price and another magnitude than the matched book order
C5_Witness ==
    /\ Executed
    /\ last.outcome = "executed"
    /\ last.order.price # last.book_order.price
    /\ abs(last.order.quantity) > abs(last.book_order.quantity)

\* C6: one add performs at most one execution, and after an add that
\* executed neither the incoming order nor the matched order (nor a remainder
\* of either) is on either side of the book.
C6_OneExecutionNoRemainder ==
    [][last'.op = "add" =>
          LET g == last'.good
              b == markets[g]
              c == markets'[g]
          IN  /\ transfers'[g] <= transfers[g] + 1
              /\ Len(c.history) <= Len(b.history) + 1
              /\ c.num_transactions <= b.num_transactions + 1
              /\ last'.transfer # NullTransfer =>
                    /\ \A o \in Resting(c) :
                          /\ o.id # last'.order.id
                          /\ o.id # last'.book_order.id
                    /\ Resting(c) \subseteq Resting(b)]_vars

\* C6 witness (scenario E): an execution of an incoming order larger than the
\* matched one, with another order left resting on the matched order's side
C6_Witness ==
    /\ Executed
    /\ last.outcome = "executed"
    /\ abs(last.order.quantity) > abs(last.book_order.quantity)
    /\ Resting(markets[last.good]) # {}

\* the claim's legitimacy predicate, on the balances inv before the add
Legitimate(order, inv) ==
    /\ order.quantity # 0
    /\ order.quantity > 0 => inv[order.agent]["capital"] >= order.price
    /\ order.quantity < 0 => inv[order.agent][order.good] >= 0 - order.quantity

\* C7: an add of an illegitimate order raises nothing, inserts nothing,
\* executes nothing and leaves the balances, the ledger, the event log and the
\* trade counter as they were; it only advances the order-id counter and
\* removes the submitter's previously resting order.
C7_IllegitimateOrderDropped ==
    [][(last'.op = "add" /\ ~Legitimate(last'.order, inventory)) =>
          LET g == last'.good
              b == markets[g]
          IN  /\ last'.outcome = "dropped"
              /\ last'.transfer = NullTransfer
              /\ transfers' = transfers
              /\ inventory' = inventory
              /\ markets' = [markets EXCEPT ![g] =
                     [b EXCEPT !.order_count = @ + 1,
                               !.buy_orders = WithoutAgent(@, last'.order.agent),
                               !.sell_orders = WithoutAgent(@, last'.order.agent)]]]_vars

\* C7 witness (scenario D): an order of non-zero quantity was dropped for
\* want of balance and the submitter's resting order went with it
C7_Witness ==
    /\ last.op = "add"
    /\ last.outcome = "dropped"
    /\ last.order.quantity # 0
    /\ Len(last.superseded) = 1

\* C8: an order of quantity 0 is illegitimate; a buy is legitimate iff the
\* agent's capital >= the unit price; a sell is legitimate iff the agent's
\* holding of the good >= |quantity|; only legitimate orders rest or execute.
C8_LegitimacyPredicate ==
    [][last'.op = "add" =>
          /\ last'.legitimate <=> Legitimate(last'.order, inventory)
          /\ (\/ last'.order \in Resting(markets'[last'.good])
              \/ last'.transfer # NullTransfer) => Legitimate(last'.order, inventory)]_vars

\* C8 witness: a buy rests whose price x quantity exceeds its owner's capital
C8_Witness ==
    /\ last.op = "add"
    /\ last.outcome = "rested"
    /\ last.order.quantity > 1
    /\ inventory[last.order.agent]["capital"] >= last.order.price
    /\ inventory[last.order.agent]["capital"] < last.order.price * last.order.quantity

\* C9: every execution issues one transfer, appends one trade record and one
\* trade event and adds one to the trade counter, so that since the last
\* reset the transfers issued, the trade records and the trade counter agree.
C9_TransfersMatchRecords ==
    \A g \in DOMAIN markets :
        /\ transfers[g] = Len(markets[g].history)
        /\ transfers[g] = markets[g].num_transactions

\* C10: the transfer moves the matched order's unit price in capital from the
\* buyer to the seller and the executed quantity of the good from the seller
\* to the buyer, the buyer owning the positive-quantity order and the seller
\* the negative-quantity one; the trade record names the same two.
C10_BuyerPaysSellerDelivers ==
    Executed =>
        LET t == last.transfer
            b == markets[last.good]
            buyer == IF last.order.quantity > 0 THEN last.order.agent ELSE last.book_order.agent
            seller == IF last.order.quantity < 0 THEN last.order.agent ELSE last.book_order.agent
            price == last.book_order.price
            quantity == min(abs(last.order.quantity), abs(last.book_order.quantity))
            pays == [caller |-> buyer, out_asset |-> "capital", out_amount |-> price,
                     in_asset |-> last.good, in_amount |-> quantity, counterparty |-> seller]
            delivers == [caller |-> seller, out_asset |-> last.good, out_amount |-> quantity,
                         in_asset |-> "capital", in_amount |-> price, counterparty |-> buyer]
        IN  /\ (last.order.quantity > 0) # (last.book_order.quantity > 0)
            /\ t \in {pays, delivers}
            /\ last.outcome = "executed" =>
                   /\ b.history[Len(b.history)].buyer = buyer
                   /\ b.history[Len(b.history)].seller = seller
                   /\ b.event_history[Len(b.event_history)].buyer_agent = buyer
                   /\ b.event_history[Len(b.event_history)].seller_agent = seller

\* C10 witness: an incoming sell of several units executed against a resting
\* buy of another agent at a price above 1
C10_Witness ==
    /\ Executed
    /\ last.outcome = "executed"
    /\ last.order.quantity < -1
    /\ last.book_order.quantity > 1
    /\ last.book_order.price > 1
    /\ last.transfer.caller # last.transfer.counterparty

\* the last call ran to its end (it did not end in an exception)
Completed == last.outcome \notin {"raised", "TypeError"}

\* C11: after every completed add, step or reset the cached best bid is the
\* head of the buy side, or the sentinel of price -infinity when the buy side
\* is empty, and the cached best offer is the head of the sell side, or the
\* sentinel of price +infinity when the sell side is empty.
C11_CachedBestIsHead ==
    Completed =>
        \A g \in DOMAIN markets :
            LET b == markets[g]
            IN  /\ b.highest_bid_order =
                       IF Len(b.buy_orders) # 0 THEN b.buy_orders[1] ELSE BidSentinel(g)
                /\ b.lowest_offer_order =
                       IF Len(b.sell_orders) # 0 THEN b.sell_orders[1] ELSE OfferSentinel(g)

\* the highest price resting on the buy side of b, -infinity if there is none
BestBidPrice(b) ==
    IF b.buy_orders = <<>> THEN 0 - Infinity
    ELSE CHOOSE p \in {o.price : o \in Range(b.buy_orders)} :
             \A o \in Range(b.buy_orders) : o.price <= p

\* the lowest price resting on the sell side of b, +infinity if there is none
BestAskPrice(b) ==
    IF b.sell_orders = <<>> THEN Infinity
    ELSE CHOOSE p \in {o.price : o \in Range(b.sell_orders)} :
             \A o \in Range(b.sell_orders) : o.price >= p

\* C12: each step() appends to the best-bid series the highest price resting
\* on the buy side at that moment (-infinity if none) and to the best-ask
\* series the lowest price resting on the sell side (+infinity if none).
C12_StepRecordsBestPrices ==
    last.op = "step" =>
        \A g \in DOMAIN markets :
            LET b == markets[g]
            IN  /\ b.best_bid_history # <<>>
                /\ b.best_bid_history[Len(b.best_bid_history)] = BestBidPrice(b)
                /\ b.best_ask_history # <<>>
                /\ b.best_ask_history[Len(b.best_ask_history)] = BestAskPrice(b)

\* C13: step() changes nothing but the two snapshot series: every call makes
\* the best-bid and the best-ask series of every book one entry longer and
\* leaves the sides, the cached best orders, the counters, the trade ledger,
\* the event log and the balances as they were.
C13_StepOnlyGrowsSeries ==
    [][last'.op = "step" =>
          /\ inventory' = inventory
          /\ transfers' = transfers
          /\ DOMAIN markets' = DOMAIN markets
          /\ \A g \in DOMAIN markets :
                LET b == markets[g]
                    c == markets'[g]
                IN  /\ Len(c.best_bid_history) = Len(b.best_bid_history) + 1
                    /\ Len(c.best_ask_history) = Len(b.best_ask_history) + 1
                    /\ SubSeq(c.best_bid_history, 1, Len(b.best_bid_history)) = b.best_bid_history
                    /\ SubSeq(c.best_ask_history, 1, Len(b.best_ask_history)) = b.best_ask_history
                    /\ [c EXCEPT !.best_bid_history = <<>>, !.best_ask_history = <<>>]
                           = [b EXCEPT !.best_bid_history = <<>>, !.best_ask_history = <<>>]]_vars

\* C13 witness: a second step on a book that holds a resting order
C13_Witness ==
    /\ last.op = "step"
    /\ \E g \in DOMAIN markets :
          /\ Len(markets[g].best_bid_history) = 2
          /\ Len(markets[g].best_ask_history) = 2
          /\ markets[g].order_count = 1
          /\ Resting(markets[g]) # {}

\* C14: after reset(), from any state, both sides of every book are empty,
\* its best bid and best ask are the sentinels of price -infinity and
\* +infinity, and its order-id counter and trade counter are 0.
C14_ResetEmptiesBook ==
    last.op = "reset" =>
        \A g \in DOMAIN markets :
            LET b == markets[g]
            IN  /\ b.buy_orders \o b.sell_orders = <<>>
                /\ b.highest_bid_order.price = 0 - Infinity
                /\ b.lowest_offer_order.price = Infinity
                /\ b.order_count = 0
                /\ b.num_transactions = 0

\* C14 witness: a reset of a book that had traded (its event log keeps the trade)
C14_Witness ==
    /\ last.op = "reset"
    /\ \E g \in DOMAIN markets : markets[g].event_history # <<>>

\* C15: after reset(environment) the resting orders, the cached best orders,
\* the counters, the trade ledger, the trade-event log and the two snapshot
\* series of every book equal those of a freshly constructed book.
C15_ResetGivesFreshBooks ==
    last.op = "reset" => \A g \in DOMAIN markets : markets[g] = NewOrderBook(g)

C18_SequentialIds ==
    [][/\ \A g \in DOMAIN markets' :
              LET before == IF g \in DOMAIN markets THEN markets[g].order_count ELSE 0
                  after == markets'[g].order_count
              IN  /\ last'.op = "reset" => after = 0
                  /\ (last'.op = "add" /\ last'.good = g) =>
                         /\ last'.order.id = before
                         /\ after = before + 1
                  /\ (last'.op \notin {"reset", "add"} \/ (last'.op = "add" /\ last'.good # g)) =>
                         after = before
                  /\ \A o, p \in Resting(markets'[g]) : o.id = p.id => o = p
                  /\ \A o \in Resting(markets'[g]) : o.id \in 0..(after - 1)]_vars

\* C18 witness: the third order of a book is dropped with id 2 after the
\* first two have rested
C18_Witness ==
    /\ last.op = "add"
    /\ last.outcome = "dropped"
    /\ last.order.id = 2
    /\ Cardinality(Resting(markets[last.good])) = 2

\* C19: the two agents of a settlement transfer are different agents, and so
\* are the buyer and the seller of every trade record.
C19_NoSelfTrade ==
    /\ Executed => last.transfer.caller # last.transfer.counterparty
    /\ \A g \in DOMAIN markets :
          \A i \in 1..Len(markets[g].history) :
              markets[g].history[i].buyer # markets[g].history[i].seller

\* C16: after every Marketplace.reset(environment) the goods that have a
\* book are exactly the goods other than capital held by the agents of that
\* environment: no book for capital, one for every held good, none left from
\* an earlier reset for a good no agent of the environment holds.
C16_BooksAreHeldGoods ==
    last.op = "reset" =>
        DOMAIN markets =
            {x \in UNION {DOMAIN inventory[a] : a \in last.environment} : x # "capital"}

\* C20: no balance is ever negative: every agent's capital and every agent's
\* holding of every good stays at or above zero through every sequence of
\* order submissions on the books.
C20_NoNegativeBalance ==
    \A a \in DOMAIN inventory : \A x \in DOMAIN inventory[a] : inventory[a][x] >= 0

\* C21: the resting book is never crossed: whenever both sides of a book hold
\* orders, the highest price on the buy side is strictly below the lowest
\* price on the sell side.
C21_BookNeverCrossed ==
    \A g \in DOMAIN markets :
        LET b == markets[g]
        IN  (b.buy_orders # <<>> /\ b.sell_orders # <<>>) =>
                \A i \in 1..Len(b.buy_orders), j \in 1..Len(b.sell_orders) :
                    b.buy_orders[i].price < b.sell_orders[j].price

\* C21 witness: an order has just rested in a book that holds three orders,
\* some on each side
C21_Witness ==
    /\ last.op = "add"
    /\ last.outcome = "rested"
    /\ LET b == markets[last.good]
       IN  /\ b.buy_orders # <<>>
           /\ b.sell_orders # <<>>
           /\ Len(b.buy_orders) + Len(b.sell_orders) = 3

====
